---- MODULE Spec2Model ----
(***************************************************************************)
(* A model of the document validator of Smart-Assurance-ValidatorX         *)
(* (src/validator.py): the string helpers, the contextual identity-code    *)
(* extractor, and InsuranceValidator.validate_with_groq together with      *)
(* _validate_extracted_data, the rule engine that scores a proposed        *)
(* extraction and decides ACCEPT or REVIEW.                                *)
(*                                                                         *)
(* Python strings the code inspects character by character are sequences   *)
(* of one-character strings; strings the code only builds, stores or       *)
(* compares whole (fraud signals, editors, messages) are TLA+ strings.     *)
(* A function of the code is one operator, or a chain of operators each    *)
(* taking the values computed so far as parameters.                        *)
(***************************************************************************)
EXTENDS Integers, Sequences, FiniteSets, TLC

VARIABLES
    pc,               \* position of the modelled call: "start", "done", "raised", "call", "ret"
    forced_doc_type,  \* validate_with_groq's forced_doc_type argument (characters)
    tech_report,      \* validate_with_groq's tech_report argument
    raw_ocr_text,     \* validate_with_groq's text argument (characters)
    today,            \* date.today() of the run, as <<year, month, day>>
    llm,              \* what the language-model call produced in this run
    result,           \* the dictionary validate_with_groq returned
    format_errors,    \* the format_errors list of _validate_extracted_data at its end
    outcome,          \* how the call ended: "pending", "validated", "fallback", "raised"
    call,             \* arguments of a helper function under test
    ret               \* value the helper function returned

vars == <<pc, forced_doc_type, tech_report, raw_ocr_text, today, llm, result,
          format_errors, outcome, call, ret>>

----------------------------------------------------------------------------
(* Characters and strings: Python's str operations on the characters the model uses *)

UpperSeq == <<"A","B","C","D","E","F","G","H","I","J","K","L","M",
              "N","O","P","Q","R","S","T","U","V","W","X","Y","Z">>

LowerSeq == <<"a","b","c","d","e","f","g","h","i","j","k","l","m",
              "n","o","p","q","r","s","t","u","v","w","x","y","z">>

DigitSeq == <<"0","1","2","3","4","5","6","7","8","9">>

IsUpperLetter(c) == \E i \in 1..26 : UpperSeq[i] = c

IsLowerLetter(c) == \E i \in 1..26 : LowerSeq[i] = c

IsDigit(c) == \E i \in 1..10 : DigitSeq[i] = c

\* \s of Python's re on str, within the characters the model uses
IsSpace(c) == c \in {" ", "\t", "\n", "\r"}

\* \w of Python's re on str, within the characters the model uses
IsWordChar(c) == IsUpperLetter(c) \/ IsLowerLetter(c) \/ IsDigit(c) \/ c = "_"

\* str.upper() on one character
UpperChar(c) ==
    IF IsLowerLetter(c) THEN UpperSeq[CHOOSE i \in 1..26 : LowerSeq[i] = c] ELSE c

\* str.lower() on one character
LowerChar(c) ==
    IF IsUpperLetter(c) THEN LowerSeq[CHOOSE i \in 1..26 : UpperSeq[i] = c] ELSE c

\* str.upper()
Upper(s) == [i \in 1..Len(s) |-> UpperChar(s[i])]

\* str.lower()
Lower(s) == [i \in 1..Len(s) |-> LowerChar(s[i])]

\* min() of a non-empty set of integers
Minimum(S) == CHOOSE x \in S : \A y \in S : x <= y

\* Python's s[a:b] for 0 <= a, 0 <= b (0-based, end exclusive, clipped to the string)
Slice(s, a, b) ==
    IF a >= b \/ a >= Len(s) THEN <<>>
    ELSE SubSeq(s, a + 1, IF b > Len(s) THEN Len(s) ELSE b)

\* Python's `needle in hay`
Contains(hay, needle) ==
    \E i \in 0..(Len(hay) - Len(needle)) : SubSeq(hay, i + 1, i + Len(needle)) = needle

\* str.find: 0-based index of the first occurrence, -1 when there is none
Find(hay, needle) ==
    IF Contains(hay, needle)
    THEN Minimum({i \in 0..(Len(hay) - Len(needle)) :
                     SubSeq(hay, i + 1, i + Len(needle)) = needle})
    ELSE -1

\* str.strip()
RECURSIVE LStrip(_)
LStrip(s) == IF s # <<>> /\ IsSpace(Head(s)) THEN LStrip(Tail(s)) ELSE s

RECURSIVE RStrip(_)
RStrip(s) == IF s # <<>> /\ IsSpace(s[Len(s)]) THEN RStrip(SubSeq(s, 1, Len(s) - 1)) ELSE s

Strip(s) == RStrip(LStrip(s))

\* re.sub(r"\s+", " ", s): every run of whitespace becomes one space
RECURSIVE CollapseSpaces(_)
CollapseSpaces(s) ==
    IF s = <<>> THEN <<>>
    ELSE IF IsSpace(Head(s))
         THEN <<" ">> \o CollapseSpaces(LStrip(s))
         ELSE <<Head(s)>> \o CollapseSpaces(Tail(s))

\* _norm_spaces
NormSpaces(s) == CollapseSpaces(Strip(s))

IsCneChar(c) == IsUpperLetter(c) \/ IsDigit(c)

\* Python's None where a string is expected: no string of characters equals it
PyNone == <<"None">>

\* (s or "")
OrEmpty(s) == IF s = PyNone THEN <<>> ELSE s

IsNotSpace(c) == ~IsSpace(c)

\* a variant that removes the whitespace only
NormalizeCneSpacesOnly(s) == SelectSeq(Upper(OrEmpty(s)), IsNotSpace)

\* _normalize_cne
NormalizeCne(s) == SelectSeq(Upper(OrEmpty(s)), IsCneChar)

\* re.fullmatch(r"[A-Z]{1,2}\d{6}", n)
IsStrictShape(n) ==
    \E k \in 1..2 :
        /\ Len(n) = k + 6
        /\ \A i \in 1..k : IsUpperLetter(n[i])
        /\ \A i \in (k + 1)..(k + 6) : IsDigit(n[i])

\* _is_cne_strict
IsCneStrict(s) == IsStrictShape(NormalizeCne(s))

----------------------------------------------------------------------------
(* _extract_cne_by_context *)

\* the window of characters before a code that is searched for a keyword
Window == 120

\* first index >= i of s that holds no whitespace (Len(s)+1 when there is none)
RECURSIVE SkipSpaces(_, _)
SkipSpaces(s, i) == IF i <= Len(s) /\ IsSpace(s[i]) THEN SkipSpaces(s, i + 1) ELSE i

\* [-]? at index i: the index after it
SkipHyphen(s, i) == IF i <= Len(s) /\ s[i] = "-" THEN i + 1 ELSE i

\* \b between s[i-1] and s[i] (1-based; the ends of the string count as non-word)
WordBoundary(s, i) ==
    (i > 1 /\ i - 1 <= Len(s) /\ IsWordChar(s[i - 1]))
        # (i >= 1 /\ i <= Len(s) /\ IsWordChar(s[i]))

\* \d{6}\b at index i: the index after it, or 0 when it does not match
SixDigitsEnd(t, i) ==
    IF /\ i + 5 <= Len(t)
       /\ \A j \in i..(i + 5) : IsDigit(t[j])
       /\ WordBoundary(t, i + 6)
    THEN i + 6
    ELSE 0

\* re match of r"\b[A-Z]{2}\s*[-]?\s*\d{6}\b" starting at index i of t:
\* the index after the match, or 0 when it does not match there
CneMatchEnd(t, i) ==
    IF /\ i + 1 <= Len(t)
       /\ WordBoundary(t, i)
       /\ IsUpperLetter(t[i])
       /\ IsUpperLetter(t[i + 1])
    THEN SixDigitsEnd(t, SkipSpaces(t, SkipHyphen(t, SkipSpaces(t, i + 2))))
    ELSE 0

\* one re.Match: [start |-> m.start() (0-based), group |-> m.group(0)]
CneMatch(t, j, e) == [start |-> j - 1, group |-> SubSeq(t, j, e - 1)]

\* list(re.finditer(...)) from index i on: the leftmost match, then the matches
\* after its end
RECURSIVE CneFindIter(_, _)

\* the match that starts at j and ends before e, then the matches from e on
CneMatchThenRest(t, j, e) == <<CneMatch(t, j, e)>> \o CneFindIter(t, e)

CneFindIter(t, i) ==
    IF \A j \in i..Len(t) : CneMatchEnd(t, j) = 0 THEN <<>>
    ELSE CneMatchThenRest(t, Minimum({j \in i..Len(t) : CneMatchEnd(t, j) > 0}),
                          CneMatchEnd(t, Minimum({j \in i..Len(t) : CneMatchEnd(t, j) > 0})))

\* strict.append((c, m.start())) when c is strict
StrictEntry(c, pos) == IF IsCneStrict(c) THEN <<[c |-> c, pos |-> pos]>> ELSE <<>>

\* the `strict` list: (normalized code, position) of the matches that are strict
RECURSIVE StrictMatches(_)
StrictMatches(ms) ==
    IF ms = <<>> THEN <<>>
    ELSE StrictEntry(NormalizeCne(Head(ms).group), Head(ms).start) \o StrictMatches(Tail(ms))

\* a variant whose window is everything before the code
LeftWindowUnbounded(t, pos) == Slice(t, 0, pos)

\* left = t[max(0, pos - 120):pos]
LeftWindow(t, pos) == Slice(t, IF pos - Window > 0 THEN pos - Window ELSE 0, pos)

\* any(k.upper() in left for k in keywords)
AnyKeywordIn(left, keywords) ==
    \E k \in 1..Len(keywords) : Contains(left, Upper(keywords[k]))

\* the loop over `strict`: the first code with a keyword in its left window,
\* empty when the loop ends without returning
RECURSIVE FirstNearKeyword(_, _, _)
FirstNearKeyword(t, strict, keywords) ==
    IF strict = <<>> THEN <<>>
    ELSE IF AnyKeywordIn(LeftWindow(t, Head(strict).pos), keywords)
         THEN Head(strict).c
         ELSE FirstNearKeyword(t, Tail(strict), keywords)

\* the result of the loop, or strict[0][0] when it returned nothing
NearOrFirst(near, strict) == IF near # <<>> THEN near ELSE strict[1].c

\* what follows the construction of `strict`
PickCode(t, strict, keywords) ==
    IF strict = <<>> THEN <<>>
    ELSE IF keywords = <<>> THEN strict[1].c
    ELSE NearOrFirst(FirstNearKeyword(t, strict, keywords), strict)

\* what follows re.finditer
PickFromMatches(t, raw_matches, keywords) ==
    IF raw_matches = <<>> THEN <<>> ELSE PickCode(t, StrictMatches(raw_matches), keywords)

\* what follows t = (text or "").upper()
ExtractFromUpper(t, keywords) == PickFromMatches(t, CneFindIter(t, 1), keywords)

\* _extract_cne_by_context(text, keywords)
ExtractCneByContext(text, keywords) == ExtractFromUpper(Upper(text), keywords)

----------------------------------------------------------------------------
(* Dates: a date is <<year, month, day>>; NoDate is Python's None *)

NoDate == <<>>

DigitVal(c) == (CHOOSE i \in 1..10 : DigitSeq[i] = c) - 1

AllDigits(s) == \A i \in 1..Len(s) : IsDigit(s[i])

\* int() of a string of digits
RECURSIVE ToInt(_)
ToInt(s) == IF s = <<>> THEN 0 ELSE 10 * ToInt(SubSeq(s, 1, Len(s) - 1)) + DigitVal(s[Len(s)])

\* s.split("/")
RECURSIVE SplitSlash(_)
SplitSlash(s) ==
    IF \A i \in 1..Len(s) : s[i] # "/" THEN <<s>>
    ELSE <<SubSeq(s, 1, Minimum({i \in 1..Len(s) : s[i] = "/"}) - 1)>>
         \o SplitSlash(SubSeq(s, Minimum({i \in 1..Len(s) : s[i] = "/"}) + 1, Len(s)))

IsLeap(y) == (y % 4 = 0 /\ y % 100 # 0) \/ y % 400 = 0

DaysInMonth(y, m) ==
    IF m = 2 THEN (IF IsLeap(y) THEN 29 ELSE 28)
    ELSE IF m \in {4, 6, 9, 11} THEN 30 ELSE 31

\* datetime.date(y, m, d) does not raise
IsCalendarDate(y, m, d) ==
    /\ y >= 1 /\ y <= 9999
    /\ m >= 1 /\ m <= 12
    /\ d >= 1 /\ d <= DaysInMonth(y, m)

RECURSIVE DaysBeforeMonth(_, _)
DaysBeforeMonth(y, m) == IF m = 1 THEN 0 ELSE DaysBeforeMonth(y, m - 1) + DaysInMonth(y, m - 1)

\* days before 1 January of the year after y
DaysThroughYear(y) == y * 365 + (y \div 4) - (y \div 100) + (y \div 400)

\* date.toordinal()
Ordinal(dt) == DaysThroughYear(dt[1] - 1) + DaysBeforeMonth(dt[1], dt[2]) + dt[3]

\* date.max.toordinal(): date + timedelta raises OverflowError beyond it
MaxOrdinal == Ordinal(<<9999, 12, 31>>)

\* d1 < d2 on dates
DateBefore(d1, d2) == Ordinal(d1) < Ordinal(d2)

\* a strptime numeric field of one or two digits with a value in lo..hi
\* (%d: 3[0-1]|[1-2]\d|0[1-9]|[1-9], %m: 1[0-2]|0[1-9]|[1-9])
IsShortField(s, lo, hi) ==
    /\ Len(s) \in 1..2
    /\ AllDigits(s)
    /\ ToInt(s) >= lo /\ ToInt(s) <= hi

\* %Y: \d\d\d\d
IsYearField(s) == Len(s) = 4 /\ AllDigits(s)

\* date(y, m, d), NoDate when it raises
DateOrNone(y, m, d) == IF IsCalendarDate(y, m, d) THEN <<y, m, d>> ELSE NoDate

\* the date of three fields matched as day, month and year
DateOfFields(day, month, year) ==
    IF IsShortField(day, 1, 31) /\ IsShortField(month, 1, 12) /\ IsYearField(year)
    THEN DateOrNone(ToInt(year), ToInt(month), ToInt(day))
    ELSE NoDate

\* the date of the parts of a string split at "/", matched as "%d/%m/%Y"
DateOfPartsDMY(parts) ==
    IF Len(parts) = 3 THEN DateOfFields(parts[1], parts[2], parts[3]) ELSE NoDate

\* the date of the parts of a string split at "/", matched as "%Y/%m/%d"
DateOfPartsYMD(parts) ==
    IF Len(parts) = 3 THEN DateOfFields(parts[3], parts[2], parts[1]) ELSE NoDate

\* datetime.strptime(s, "%d/%m/%Y").date(), NoDate when it raises
StrptimeDMY(s) == DateOfPartsDMY(SplitSlash(s))

\* datetime.strptime(s, "%Y/%m/%d").date(), NoDate when it raises
StrptimeYMD(s) == DateOfPartsYMD(SplitSlash(s))

\* re.sub(r"\s+", "/", s) of a string whose whitespace runs are single spaces
SpacesToSlashes(s) == [i \in 1..Len(s) |-> IF s[i] = " " THEN "/" ELSE s[i]]

\* a variant whose character class lacks the hyphen
SeparatorsToSlashesButHyphen(s) ==
    [i \in 1..Len(s) |-> IF s[i] \in {".", "'", ","} THEN "/" ELSE s[i]]

\* re.sub(r"[.\-\',]", "/", s)
SeparatorsToSlashes(s) ==
    [i \in 1..Len(s) |-> IF s[i] \in {".", "-", "'", ","} THEN "/" ELSE s[i]]

\* re.sub(r"[.\-\',]", "/", s) followed by re.sub(r"\s+", "/", ...)
SlashSeparators(s) == SpacesToSlashes(CollapseSpaces(SeparatorsToSlashes(s)))

\* r"\d{2}/\d{2}/\d{4}" matches at index i of s
DatePatternAt(s, i) ==
    /\ i + 9 <= Len(s)
    /\ \A j \in {i, i + 1, i + 3, i + 4, i + 6, i + 7, i + 8, i + 9} : IsDigit(s[j])
    /\ s[i + 2] = "/" /\ s[i + 5] = "/"

\* re.search(r"(\d{2}/\d{2}/\d{4})", s): group(1) of the leftmost match, s when none
EmbeddedDate(s) ==
    IF \A i \in 1..Len(s) : ~DatePatternAt(s, i) THEN s
    ELSE SubSeq(s, Minimum({i \in 1..Len(s) : DatePatternAt(s, i)}),
                Minimum({i \in 1..Len(s) : DatePatternAt(s, i)}) + 9)

\* the loop over the two formats: the first that parses
ParseCandidate(s2) == IF StrptimeDMY(s2) # NoDate THEN StrptimeDMY(s2) ELSE StrptimeYMD(s2)

\* _parse_date_any after s = _norm_spaces(s)
ParseNormalized(n) ==
    IF n = <<>> THEN NoDate ELSE ParseCandidate(EmbeddedDate(SlashSeparators(n)))

\* _parse_date_any
ParseDateAny(s) == ParseNormalized(NormSpaces(s))

\* an integer below 10^width as exactly width digits
RECURSIVE Digits(_, _)
Digits(n, width) ==
    IF width = 0 THEN <<>> ELSE Digits(n \div 10, width - 1) \o <<DigitSeq[(n % 10) + 1]>>

\* a date written DD/MM/YYYY
FormatDMY(dt) == Digits(dt[3], 2) \o <<"/">> \o Digits(dt[2], 2) \o <<"/">> \o Digits(dt[1], 4)

\* str(date): YYYY-MM-DD
FormatISO(dt) == Digits(dt[1], 4) \o <<"-">> \o Digits(dt[2], 2) \o <<"-">> \o Digits(dt[3], 2)

----------------------------------------------------------------------------
(* _parse_duration_to_timedelta *)

\* None, for a duration that names no quantity
NoDuration == -1

\* the unit alternatives of the three patterns, without their optional endings;
\* the accented spelling of the year pattern begins with "an" and is matched by it
YearUnits == {<<"a","n">>, <<"a","n","n","e","e">>, <<"y","e","a","r">>}

MonthUnits == {<<"m","o","i","s">>, <<"m","o","n","t","h">>}

DayUnits == {<<"j","o","u","r">>, <<"d","a","y">>}

\* first index >= i of s that holds no digit
RECURSIVE SkipDigits(_, _)
SkipDigits(s, i) == IF i <= Len(s) /\ IsDigit(s[i]) THEN SkipDigits(s, i + 1) ELSE i

\* one of the units starts at index j of s
UnitAt(s, j, units) ==
    \E u \in units : j + Len(u) - 1 <= Len(s) /\ SubSeq(s, j, j + Len(u) - 1) = u

\* r"(\d+)\s*(?:unit|...)" matches at the digit run starting at index i
QuantityAt(s, i, units) ==
    /\ IsDigit(s[i])
    /\ i = 1 \/ ~IsDigit(s[i - 1])
    /\ UnitAt(s, SkipSpaces(s, SkipDigits(s, i)), units)

\* sum(int(x) for x in re.findall(pattern, s)), summed from index i on
RECURSIVE SumQuantities(_, _, _)
SumQuantities(s, i, units) ==
    IF i > Len(s) THEN 0
    ELSE IF QuantityAt(s, i, units)
         THEN ToInt(SubSeq(s, i, SkipDigits(s, i) - 1)) + SumQuantities(s, SkipDigits(s, i), units)
         ELSE SumQuantities(s, i + 1, units)

DaysPerYear == 365

DaysPerMonth == 30

\* timedelta(days=years * 365 + months * 30 + days), None when all three are 0
DurationOf(years, months, days) ==
    IF years = 0 /\ months = 0 /\ days = 0 THEN NoDuration
    ELSE years * DaysPerYear + months * DaysPerMonth + days

\* _parse_duration_to_timedelta after s = (s or "").lower().strip()
DurationOfLowered(t) ==
    IF t = <<>> THEN NoDuration
    ELSE DurationOf(SumQuantities(t, 1, YearUnits), SumQuantities(t, 1, MonthUnits),
                    SumQuantities(t, 1, DayUnits))

\* _parse_duration_to_timedelta, as a number of days
ParseDurationToTimedelta(s) == DurationOfLowered(Strip(Lower(s)))

----------------------------------------------------------------------------
(* _clean_name *)

IsNameChar(c) == IsUpperLetter(c) \/ IsLowerLetter(c) \/ IsSpace(c) \/ c = "'"

\* the two re.sub that turn digits and every character that is no letter,
\* whitespace or apostrophe into a space (on ASCII text)
BlankNonName(t) == [i \in 1..Len(t) |-> IF IsNameChar(t[i]) THEN t[i] ELSE " "]

\* _clean_name
CleanName(s) == Strip(CollapseSpaces(BlankNonName(Strip(s))))

----------------------------------------------------------------------------
(* Dictionaries: functions from keys to values; a missing key is outside DOMAIN *)

EmptyDict == [k \in {} |-> TRUE]

\* d.get(k, default)
Get(d, k, default) == IF k \in DOMAIN d THEN d[k] ELSE default

\* d[k] = v
Put(d, k, v) == [x \in (DOMAIN d) \cup {k} |-> IF x = k THEN v ELSE d[x]]

\* d.setdefault(k, v)
SetDefault(d, k, v) == IF k \in DOMAIN d THEN d ELSE Put(d, k, v)

\* d.update(u)
Update(d, u) == [x \in (DOMAIN d) \cup (DOMAIN u) |-> IF x \in DOMAIN u THEN u[x] ELSE d[x]]

----------------------------------------------------------------------------
(* The validators imported from utils; their code is not part of the sources *)

DateVerdict(d) ==
    IF d # NoDate THEN [ok |-> TRUE, out |-> FormatDMY(d)] ELSE [ok |-> FALSE, out |-> <<>>]

\* validate_date_format(s) -> (ok, normalized_or_message): accepts a calendar date
\* written day/month/year and returns it as DD/MM/YYYY
ValidateDateFormat(s) == DateVerdict(StrptimeDMY(SlashSeparators(NormSpaces(s))))

IbanLength == 28

IbanVerdict(ok) == [ok |-> ok, msg |-> IF ok THEN "OK" ELSE "IBAN invalide"]

\* validate_iban(s) -> (ok, message): accepts MA followed by 26 digits
ValidateIban(s) ==
    IbanVerdict(/\ Len(s) = IbanLength
                /\ s[1] = "M" /\ s[2] = "A"
                /\ \A i \in 3..IbanLength : IsDigit(s[i]))

----------------------------------------------------------------------------
(* _validate_extracted_data: the checks of the fields.  The state the checks *)
(* thread through is st = [ex |-> extracted, fv |-> format_validation,       *)
(* errs |-> format_errors].                                                  *)

\* an entry of format_errors: the label of the field, what is wrong, the value shown
FormatError(label, problem, value) == [label |-> label, problem |-> problem, value |-> value]

\* format_errors.append(e)
AddError(st, e) == [st EXCEPT !.errs = Append(@, e)]

\* fv[flag] = False
Flag(st, flag) == [st EXCEPT !.fv = Put(@, flag, FALSE)]

\* extracted[key] = v
Store(st, key, v) == [st EXCEPT !.ex = Put(@, key, v)]

\* re.sub(r"[.\-]", "/", v)
DotsToSlashes(v) == [i \in 1..Len(v) |-> IF v[i] \in {".", "-"} THEN "/" ELSE v[i]]

\* v_clean: re.sub(r"[.\-]", "/", v) followed by re.sub(r"\s+", "/", ...)
PreCleanDate(v) == SpacesToSlashes(CollapseSpaces(DotsToSlashes(v)))

\* _check_date_field after d = _parse_date_any(formatted_or_msg)
CheckDateParsed(stored, label, v, d) ==
    IF d = NoDate
    THEN [st |-> AddError(Flag(stored, "dates_format_valid"), FormatError(label, "illisible", v)),
          d  |-> NoDate]
    ELSE [st |-> stored, d |-> d]

\* _check_date_field after ok, formatted_or_msg = validate_date_format(v_clean)
CheckDateVerdict(st, key, label, v, checked) ==
    IF ~checked.ok
    THEN [st |-> AddError(Flag(st, "dates_format_valid"), FormatError(label, "invalide", v)),
          d  |-> NoDate]
    ELSE CheckDateParsed(Store(st, key, checked.out), label, v, ParseDateAny(checked.out))

\* _check_date_field after v = _norm_spaces(extracted.get(key, ""))
CheckDateValue(st, key, label, v) ==
    IF v = <<>> THEN [st |-> st, d |-> NoDate]
    ELSE CheckDateVerdict(st, key, label, v, ValidateDateFormat(PreCleanDate(v)))

\* _check_date_field(key, label): [st |-> the state after it, d |-> the date or NoDate]
CheckDateField(st, key, label) ==
    CheckDateValue(st, key, label, NormSpaces(Get(st.ex, key, <<>>)))

\* _check_cne_field from its second `if not v` on
CheckCneValue(st, label, v) ==
    IF v = <<>>
    THEN AddError(Flag(st, "cne_format_valid"), FormatError(label, "manquant", <<>>))
    ELSE IF ~IsCneStrict(v)
         THEN AddError(Flag(st, "cne_format_valid"),
                       FormatError(label, "invalide (2 lettres + 6 chiffres)", v))
         ELSE st

\* _check_cne_field after fb = _extract_cne_by_context(raw_ocr_text, fallback_keywords)
CheckCneFallback(st, key, label, fb) ==
    IF fb # <<>> THEN CheckCneValue(Store(st, key, fb), label, fb)
    ELSE CheckCneValue(st, label, <<>>)

\* _check_cne_field(key, label, fallback_keywords): the state after it
CheckCneField(st, key, label, fallback_keywords, text) ==
    IF Get(st.ex, key, <<>>) # <<>>
    THEN CheckCneValue(st, label, Get(st.ex, key, <<>>))
    ELSE CheckCneFallback(st, key, label, ExtractCneByContext(text, fallback_keywords))

\* the fourth keyword is N followed by two non-ASCII characters, named by code point
KeywordsId ==
    << <<"C","N","I","E">>, <<"C","I","N">>, <<"N","U","M">>, <<"N","U+00AC","U+221E">> >>

KeywordsInsured ==
    << <<"A","S","S","U","R","E">>, <<"A","D","H","E","R","E","N","T">>,
       <<"S","O","U","S","C","R","I","P","T","E","U","R">>,
       <<"C","I","N">>, <<"C","N","I","E">> >>

KeywordsBeneficiary ==
    << <<"B","E","N","E","F","I","C","I","A","I","R","E">>, <<"A","Y","A","N","T">>,
       <<"D","R","O","I","T">>, <<"C","I","N">>, <<"C","N","I","E">> >>

----------------------------------------------------------------------------
(* The ID rules *)

\* `if exp and exp <= today`
IdExpiryRule(checked, now) ==
    IF checked.d # NoDate /\ ~DateBefore(now, checked.d)
    THEN AddError(checked.st,
                  FormatError("CNI", "date expiration doit etre > date du jour", <<>>))
    ELSE checked.st

IdRules(st, text, now) ==
    IdExpiryRule(
        CheckDateField(
            CheckDateField(
                CheckCneField(st, "cni_cne", "CNE (CNI)", KeywordsId, text),
                "cni_birth_date", "Date naissance (CNI)").st,
            "cni_expiry_date", "Date expiration (CNI)"),
        now)

----------------------------------------------------------------------------
(* The BANK rules *)

\* full_rib: the four boxes, normalized, concatenated, digits only
AssembleRib(ex) ==
    SelectSeq(NormalizeCne(Get(ex, "bank_code_banque", <<>>))
              \o NormalizeCne(Get(ex, "bank_code_ville", <<>>))
              \o NormalizeCne(Get(ex, "bank_numero_compte", <<>>))
              \o NormalizeCne(Get(ex, "bank_cle_rib", <<>>)),
              IsDigit)

\* `if len(full_rib) == 24: pass`, then ex["bank_rib_code"] = full_rib
BankRibRule(st) == Store(st, "bank_rib_code", AssembleRib(st.ex))

\* `if not holder`
BankHolderRule(st) ==
    IF NormSpaces(Get(st.ex, "bank_account_holder", <<>>)) = <<>>
    THEN AddError(st, FormatError("Titulaire du compte (bank_account_holder)", "manquant", <<>>))
    ELSE st

NotSpaceChar(c) == c # " "

\* iban = _norm_spaces(ex.get("bank_iban", "")).upper().replace(" ", "")
IbanOf(ex) == SelectSeq(Upper(NormSpaces(Get(ex, "bank_iban", <<>>))), NotSpaceChar)

\* the cleaning: from the first "MA" take 28 characters; without "MA", when longer
\* than 28, take the last 28
CleanIban(iban) ==
    IF Contains(iban, <<"M","A">>)
    THEN Slice(iban, Find(iban, <<"M","A">>), Find(iban, <<"M","A">>) + IbanLength)
    ELSE IF Len(iban) > IbanLength
         THEN SubSeq(iban, Len(iban) - IbanLength + 1, Len(iban))
         ELSE iban

\* ex["bank_iban"] = iban; fv["iban_format_valid"] = bool(ok); `if not ok`
BankIbanVerdict(st, clean, verdict) ==
    IF verdict.ok
    THEN [Store(st, "bank_iban", clean) EXCEPT !.fv = Put(@, "iban_format_valid", TRUE)]
    ELSE AddError([Store(st, "bank_iban", clean) EXCEPT !.fv = Put(@, "iban_format_valid", FALSE)],
                  FormatError("IBAN", verdict.msg, <<>>))

\* a variant that does not log the cleaning
BankIbanNotLogged(st, original, clean) == st

\* `if len(original_for_log) != len(iban)`
BankIbanLogged(st, original, clean) ==
    IF Len(original) # Len(clean) THEN AddError(st, FormatError("IBAN", "nettoye", original))
    ELSE st

BankIbanCleaned(st, original, clean) ==
    BankIbanVerdict(BankIbanLogged(st, original, clean), clean, ValidateIban(clean))

\* `if iban:`
BankIbanValue(st, iban) == IF iban = <<>> THEN st ELSE BankIbanCleaned(st, iban, CleanIban(iban))

\* the holder and IBAN are read before bank_rib_code is written, from other keys
BankIbanRule(st) == BankIbanValue(st, IbanOf(st.ex))

\* the BANK rules. `aliased` tells whether ex, read again from groq_result, is the
\* dictionary `extracted`; when extracted_data was empty, `or {}` made `extracted`
\* another dictionary, ex is empty and what is written to it is lost
BankRules(st, aliased) ==
    IF aliased THEN BankIbanRule(BankHolderRule(BankRibRule(st)))
    ELSE AddError(st, FormatError("Titulaire du compte (bank_account_holder)", "manquant", <<>>))

----------------------------------------------------------------------------
(* The DEATH rules *)

\* `if dth and dth > today`
DeathFutureRule(st, dth, now) ==
    IF dth # NoDate /\ DateBefore(now, dth)
    THEN AddError(st, FormatError("Date deces", "dans le futur", FormatISO(dth)))
    ELSE st

DeathParsed(st, now) == DeathFutureRule(st, ParseDateAny(Get(st.ex, "death_date", <<>>)), now)

\* `if ok: extracted["death_date"] = formatted_date`
DeathUnified(st, checked) == IF checked.ok THEN Store(st, "death_date", checked.out) ELSE st

DeathRules(st, now) ==
    DeathParsed(
        DeathUnified(st, ValidateDateFormat(NormSpaces(Get(st.ex, "death_date", <<>>)))),
        now)

----------------------------------------------------------------------------
(* The LIFE_CONTRACT rules: [st |-> the state after them, raised |-> whether    *)
(* effective date + duration went beyond date.max (OverflowError)]              *)

Passed(st) == [raised |-> FALSE, st |-> st]

\* computed_end = eff + td; `if computed_end <= today`
LifeComputedEndRule(st, computed_end, now) ==
    IF computed_end > MaxOrdinal THEN [raised |-> TRUE, st |-> st]
    ELSE IF computed_end <= Ordinal(now)
         THEN Passed(AddError(st, FormatError("Contrat",
                                  "date effet + duree doit etre < date du jour", <<>>)))
         ELSE Passed(st)

\* td = _parse_duration_to_timedelta(duration); `if td is None`
LifeDurationRule(st, eff, td, now) ==
    IF td = NoDuration
    THEN Passed(AddError(st, FormatError("Duree", "manquante/illisible (si pas de date fin)", <<>>)))
    ELSE LifeComputedEndRule(st, Ordinal(eff) + td, now)

\* `if end: if end >= today ... else: if eff: ...`
LifeEndRule(eff, checked_end, now) ==
    IF checked_end.d # NoDate
    THEN IF ~DateBefore(checked_end.d, now)
         THEN Passed(AddError(checked_end.st,
                              FormatError("Contrat", "date fin doit etre < date du jour", <<>>)))
         ELSE Passed(checked_end.st)
    ELSE IF eff = NoDate THEN Passed(checked_end.st)
    ELSE LifeDurationRule(checked_end.st, eff,
             ParseDurationToTimedelta(NormSpaces(Get(checked_end.st.ex, "contract_duration", <<>>))),
             now)

LifeDatesRule(checked_eff, now) ==
    LifeEndRule(checked_eff.d,
                CheckDateField(checked_eff.st, "contract_end_date", "Date fin contrat"),
                now)

LifeContractRules(st, text, now) ==
    LifeDatesRule(
        CheckDateField(
            CheckDateField(
                CheckDateField(
                    CheckCneField(
                        CheckCneField(st, "insured_cne", "CNE (assure)", KeywordsInsured, text),
                        "beneficiary_cne", "CNE (beneficiaire)", KeywordsBeneficiary, text),
                    "insured_birth_date", "Naissance (assure)").st,
                "beneficiary_birth_date", "Naissance (beneficiaire)").st,
            "contract_effective_date", "Date effectuation"),
        now)

----------------------------------------------------------------------------
(* _validate_extracted_data: scoring and decision *)

DefaultScore == 60

FormatPenalty == 6

FraudPenalty == 10

AcceptThreshold == 85

FontThreshold == 8

\* a JSON score is [t |-> "int", v |-> n], [t |-> "str", v |-> characters] or [t |-> "null"]
IntScore(n) == [t |-> "int", v |-> n]

StrScore(chars) == [t |-> "str", v |-> chars]

NullScore == [t |-> "null"]

\* Python's truth value of a score
Truthy(x) ==
    CASE x.t = "null" -> FALSE
      [] x.t = "int"  -> x.v # 0
      [] x.t = "str"  -> x.v # <<>>

\* a stripped int() literal without its sign
DropSign(t) == IF t # <<>> /\ t[1] \in {"+", "-"} THEN Tail(t) ELSE t

\* the digits of an int() literal once stripped and without its sign
Unsigned(x) == DropSign(Strip(x))

\* int(x) raises ValueError
IntRaises(x) == x.t = "str" /\ (Unsigned(x.v) = <<>> \/ ~AllDigits(Unsigned(x.v)))

\* int(x) when it does not raise
IntOf(x) ==
    IF x.t = "int" THEN x.v
    ELSE IF Strip(x.v)[1] = "-" THEN 0 - ToInt(Unsigned(x.v)) ELSE ToInt(Unsigned(x.v))

\* x or 60
OrDefault(x) == IF Truthy(x) THEN x ELSE IntScore(DefaultScore)

\* groq_result.get("score", 60) or 60
ScoreOrDefault(groq_result) == OrDefault(Get(groq_result, "score", IntScore(DefaultScore)))

\* base_score = int(groq_result.get("score", 60) or 60), when int() does not raise
BaseScore(groq_result) == IntOf(ScoreOrDefault(groq_result))

\* the fraud_signals list built from the tech report
TechFraudSignals(tech) ==
    (IF tech.potential_tampering
     THEN <<"Suspicious editor: " \o tech.editor_detected>> ELSE <<>>)
    \o (IF tech.font_count > FontThreshold
        THEN <<"High font variety: " \o ToString(tech.font_count) \o " fonts">> ELSE <<>>)

\* penalty = len(format_errors) * 6 + len(fraud_signals) * 10
Penalty(errs, fraud_signals) == Len(errs) * FormatPenalty + Len(fraud_signals) * FraudPenalty

\* final_score = max(0, base_score - penalty)
FinalScore(base_score, penalty) == IF base_score - penalty > 0 THEN base_score - penalty ELSE 0

\* set(list)
ToSet(list) == {list[i] : i \in 1..Len(list)}

\* a variant that reports the signals of the tech report only
ReportedSignalsLocalOnly(upstream, fraud_signals) == ToSet(fraud_signals)

\* groq_result["fraud_signals"] = list(set(groq_result.get("fraud_signals", []) + fraud_signals))
ReportedSignals(upstream, fraud_signals) == ToSet(upstream \o fraud_signals)

\* groq_result["fraud_suspected"] = len(fraud_signals) > 0
FraudSuspected(fraud_signals) == Len(fraud_signals) > 0

\* a variant that decides on the score and the errors alone
DecideOnScoreAndErrors(tech, final_score, fraud_suspected, errs) ==
    IF final_score >= AcceptThreshold /\ Len(errs) = 0 THEN "ACCEPT" ELSE "REVIEW"

\* the decision rule
Decide(tech, final_score, fraud_suspected, errs) ==
    IF tech.potential_tampering THEN "REVIEW"
    ELSE IF final_score >= AcceptThreshold /\ ~fraud_suspected /\ Len(errs) = 0 THEN "ACCEPT"
    ELSE "REVIEW"

\* groq_result["is_valid"] = (groq_result["decision"] == "ACCEPT")
IsValid(decision) == decision = "ACCEPT"

NameKeys ==
    {"cni_full_name", "bank_account_holder", "deceased_full_name",
     "insured_full_name", "beneficiary_full_name"}

CneKeys == {"cni_cne", "deceased_cne", "insured_cne", "beneficiary_cne"}

\* the two loops that clean the names and normalize the identity codes
CleanFields(extracted) ==
    [k \in DOMAIN extracted |->
        IF k \in NameKeys THEN CleanName(extracted[k])
        ELSE IF k \in CneKeys /\ extracted[k] # <<>> THEN NormalizeCne(extracted[k])
        ELSE extracted[k]]

FlagNames ==
    {"cne_format_valid", "iban_format_valid", "rib_format_valid", "dates_format_valid"}

\* the four fv.setdefault(flag, True)
DefaultFlags(fv) == [k \in (DOMAIN fv) \cup FlagNames |-> IF k \in DOMAIN fv THEN fv[k] ELSE TRUE]

DocId == <<"I","D">>

DocBank == <<"B","A","N","K">>

DocDeath == <<"D","E","A","T","H">>

DocLifeContract == <<"L","I","F","E","_","C","O","N","T","R","A","C","T">>

DocUnknown == <<"U","N","K","N","O","W","N">>

\* the rules of the document type: [raised, st]
TypeRules(dt, st, aliased, text, now) ==
    IF dt = DocId THEN Passed(IdRules(st, text, now))
    ELSE IF dt = DocBank THEN Passed(BankRules(st, aliased))
    ELSE IF dt = DocDeath THEN Passed(DeathRules(st, now))
    ELSE IF dt = DocLifeContract THEN LifeContractRules(st, text, now)
    ELSE Passed(st)

\* the four groq_result.setdefault
WithDefaults(groq_result) ==
    SetDefault(SetDefault(SetDefault(SetDefault(groq_result,
        "format_validation", EmptyDict), "extracted_data", EmptyDict),
        "fraud_signals", <<>>), "country", "MAROC")

\* dt = (groq_result.get("doc_type") or "UNKNOWN").strip().upper()
DocTypeOf(g) ==
    Upper(Strip(IF Get(g, "doc_type", <<>>) = <<>> THEN DocUnknown ELSE g["doc_type"]))

\* extracted, fv and format_errors when the rules of the type start
StateBeforeRules(g) ==
    [ex   |-> CleanFields(g["extracted_data"]),
     fv   |-> DefaultFlags(g["format_validation"]),
     errs |-> <<>>]

\* the reason once format_errors is not empty: what came from upstream, then the errors
WithReason(scored, existing, errs) ==
    IF errs = <<>> THEN scored
    ELSE Put(scored, "reason", [existing |-> existing, verify |-> errs])

\* the dictionary returned: groq_result with its score, fraud fields, decision,
\* is_valid, reason, format_validation and extracted_data written
Returned(g, fraud_signals, st, final_score, decision, is_valid) ==
    [raised |-> FALSE,
     errs   |-> st.errs,
     result |-> WithReason(
                    Update(g,
                        [score             |-> final_score,
                         fraud_suspected   |-> FraudSuspected(fraud_signals),
                         fraud_signals     |-> ReportedSignals(g["fraud_signals"], fraud_signals),
                         decision          |-> decision,
                         is_valid          |-> is_valid,
                         format_validation |-> st.fv,
                         extracted_data    |-> st.ex]),
                    Get(g, "reason", ""), st.errs)]

\* a variant that writes the decision with setdefault: a decision proposed
\* upstream would survive
ValidateDecidedKeepingDecision(g, fraud_signals, st, final_score, decision) ==
    Returned(g, fraud_signals, st, final_score,
             Get(g, "decision", decision), IsValid(Get(g, "decision", decision)))

\* a variant that writes is_valid with setdefault: an is_valid proposed upstream
\* would survive
ValidateDecidedKeepingIsValid(g, fraud_signals, st, final_score, decision) ==
    Returned(g, fraud_signals, st, final_score, decision,
             Get(g, "is_valid", IsValid(decision)))

\* _validate_extracted_data from groq_result["score"] = final_score to its return
ValidateDecided(g, fraud_signals, st, final_score, decision) ==
    Returned(g, fraud_signals, st, final_score, decision, IsValid(decision))

ValidateScored(g, tech, fraud_signals, st, final_score) ==
    ValidateDecided(g, fraud_signals, st, final_score,
                    Decide(tech, final_score, FraudSuspected(fraud_signals), st.errs))

\* _validate_extracted_data after the rules of the document type
ValidateRuled(g, tech, fraud_signals, ruled) ==
    IF ruled.raised THEN [raised |-> TRUE, error |-> "date value out of range"]
    ELSE IF IntRaises(ScoreOrDefault(g))
         THEN [raised |-> TRUE, error |-> "invalid literal for int()"]
    ELSE ValidateScored(g, tech, fraud_signals, ruled.st,
                        FinalScore(BaseScore(g), Penalty(ruled.st.errs, fraud_signals)))

ValidateDefaulted(g, tech, text, now) ==
    ValidateRuled(g, tech, TechFraudSignals(tech),
                  TypeRules(DocTypeOf(g), StateBeforeRules(g),
                            g["extracted_data"] # EmptyDict, text, now))

\* _validate_extracted_data(groq_result, tech_report, raw_ocr_text):
\* [raised |-> TRUE, error |-> the exception] or
\* [raised |-> FALSE, result |-> the dictionary returned, errs |-> format_errors]
ValidateExtractedData(groq_result, tech, text, now) ==
    ValidateDefaulted(WithDefaults(groq_result), tech, text, now)

----------------------------------------------------------------------------
(* validate_with_groq *)

\* forced_doc_type = (forced_doc_type or "").strip().upper(), UNKNOWN when not a known type
NormalizeDocType(arg) ==
    IF Upper(Strip(arg)) \in {DocId, DocBank, DocDeath, DocLifeContract}
    THEN Upper(Strip(arg))
    ELSE DocUnknown

\* a variant whose fallback carries the default score
FallbackResultDefaultScore(doc, e) ==
    [decision          |-> "REVIEW",
     is_valid          |-> FALSE,
     score             |-> DefaultScore,
     country           |-> "MAROC",
     doc_type          |-> doc,
     fraud_suspected   |-> FALSE,
     fraud_signals     |-> {},
     extracted_data    |-> EmptyDict,
     format_validation |-> EmptyDict,
     reason            |-> "Erreur API/systeme : " \o e]

\* the dictionary returned by `except Exception as e`
FallbackResult(doc, e) ==
    [decision          |-> "REVIEW",
     is_valid          |-> FALSE,
     score             |-> 0,
     country           |-> "MAROC",
     doc_type          |-> doc,
     fraud_suspected   |-> FALSE,
     fraud_signals     |-> {},
     extracted_data    |-> EmptyDict,
     format_validation |-> EmptyDict,
     reason            |-> "Erreur API/systeme : " \o e]

----------------------------------------------------------------------------
(* The inputs of a run *)

\* forced_doc_type as callers pass it
DocTypeArgs ==
    {DocId, <<" ","b","a","n","k"," ">>, DocDeath, <<"l","i","f","e","_","c","o","n","t","r","a","c","t">>, <<"P","A","S","S","P","O","R","T">>}

\* analyze_technical_integrity: the report on a file whose metadata name the
\* editor, suspicious or not, and whose pages hold font_count fonts
TechReport(is_suspicious_tool, editor, font_count) ==
    [suspicious_metadata |-> is_suspicious_tool,
     editor_detected     |-> editor,
     font_count          |-> font_count,
     potential_tampering |-> (is_suspicious_tool \/ font_count > FontThreshold)]

TechReports ==
    {TechReport(s, IF s THEN "canva" ELSE "word", n) :
        s \in BOOLEAN, n \in {0, FontThreshold, FontThreshold + 1}}

OcrTexts ==
    {<<>>,
     <<"A","s","s","u","r","e"," ","C","I","N",":"," ","A","B","1","2","3","4","5","6"," ","B","e","n","e","f","i","c","i","a","i","r","e"," ","C","I","N",":"," ","c","d","-","7","8","9","0","1","2">>}

Todays == {<<2026, 11, 2>>}

\* extracted_data the language model proposes for an identity card
IdExtractions ==
    {[cni_full_name |-> <<"D","O","H","A"," ","E","L","-","I","D","R","I","S","S","I"," ","2">>,
      cni_cne |-> <<"c","d"," ","9","3","6","8","7","3">>,
      cni_birth_date |-> <<"1","5","/","0","3","/","1","9","8","5">>,
      cni_expiry_date |-> <<"1","2","/","0","1","/","2","0","3","0">>],
     [cni_full_name |-> <<"D","O","H","A">>,
      cni_cne |-> <<"C","D","9","3","6","8","7","3">>,
      cni_birth_date |-> <<"1","5","/","0","3","/","1","9","8","5">>,
      cni_expiry_date |-> <<"3","1","/","1","3","/","2","0","2","5">>],
     [cni_full_name |-> <<"D","O","H","A">>,
      cni_cne |-> <<>>,
      cni_birth_date |-> <<"1","5",".","0","3",".","1","9","8","5">>,
      cni_expiry_date |-> <<"1","2",".","0","1",".","2","0","3","0">>],
     [cni_cne |-> <<"A","1","2","3","4","5","6">>,
      cni_birth_date |-> <<>>,
      cni_expiry_date |-> <<"0","2","/","1","1","/","2","0","2","6">>],
     [cni_cne |-> <<"A","B","C","1","2">>,
      cni_birth_date |-> <<"1","9","8","5","-","0","3","-","1","5">>],
     EmptyDict}

\* extracted_data the language model proposes for a bank statement
BankExtractions ==
    {[bank_account_holder |-> <<"B","E","N","A","L","I"," ","M","O","H","A","M","E","D">>,
      bank_code_banque |-> <<"0","1","1">>,
      bank_code_ville |-> <<"6","4","0">>,
      bank_numero_compte |-> <<"1","2","3","4","5","6","7","8","9","0","1","2","3","4","5","6">>,
      bank_cle_rib |-> <<"7","8">>,
      bank_iban |-> <<"M","A","6","4"," ","0","1","1","6"," ","4","0","1","2"," ","3","4","5","6"," ","7","8","9","0"," ","1","2","3","4"," ","5","6","7","8">>],
     [bank_account_holder |-> <<"B","E","N","A","L","I"," ","M","O","H","A","M","E","D">>,
      bank_code_banque |-> <<"0","1","1">>,
      bank_code_ville |-> <<"6","4","0">>,
      bank_numero_compte |-> <<"1","2","3">>,
      bank_cle_rib |-> <<"7","8">>,
      bank_iban |-> <<"M","A","6","4","0","1","1","6","4","0","1","2","3","4","5","6","7","8","9","0","1","2","3","4","5","6","7","8">>],
     [bank_account_holder |-> <<"B","E","N","A","L","I"," ","M","O","H","A","M","E","D">>,
      bank_code_banque |-> <<"0","1","1">>,
      bank_code_ville |-> <<"6","4","0">>,
      bank_numero_compte |-> <<"1","2","3","4","-","5","6","7","8","-","9","0","1","2","-","3","4","5","6">>,
      bank_cle_rib |-> <<"7","8">>,
      bank_iban |-> <<"I","B","A","N",":","M","A","6","4","0","1","1","6","4","0","1","2","3","4","5","6","7","8","9","0","1","2","3","4","5","6","7","8">>],
     [bank_account_holder |-> <<>>,
      bank_code_banque |-> <<>>,
      bank_code_ville |-> <<>>,
      bank_numero_compte |-> <<>>,
      bank_cle_rib |-> <<>>,
      bank_iban |-> <<"M","A","1","2">>],
     [bank_account_holder |-> <<"1","2">>,
      bank_code_banque |-> <<"0","1","1">>,
      bank_code_ville |-> <<"6","4","0">>,
      bank_numero_compte |-> <<"1","2","3","4","5","6","7","8","9","0","1","2","3","4","5","6">>,
      bank_cle_rib |-> <<"7","8","9">>,
      bank_iban |-> <<"F","R","7","6","3","0","0","0","6","0","0","0","0","1","1","2","3","4","5","6","7","8","9","0","1","8","9","0","0","0">>],
     EmptyDict}

\* extracted_data the language model proposes for a death certificate
DeathExtractions ==
    {[deceased_full_name |-> <<"B","E","N","A","L","I"," ","M","O","H","A","M","E","D">>,
      deceased_cne |-> <<"A","B","1","2","3","4","5","6">>,
      deceased_birth_date |-> <<"1","5","/","0","3","/","1","9","8","5">>,
      death_date |-> <<"1","0","/","1","2","/","2","0","2","0">>],
     [deceased_full_name |-> <<"B","E","N","A","L","I"," ","M","O","H","A","M","E","D">>,
      deceased_cne |-> <<"A","B","1","2","3","4","5","6">>,
      deceased_birth_date |-> <<"1","5","/","0","3","/","1","9","8","5">>,
      death_date |-> <<"1","0",".","1","2",".","2","0","2","7">>],
     [deceased_full_name |-> <<"B","E","N","A","L","I">>,
      deceased_cne |-> <<>>,
      deceased_birth_date |-> <<>>,
      death_date |-> <<"2","0","2","7","-","1","2","-","1","0">>],
     [deceased_cne |-> <<"A","1">>,
      deceased_birth_date |-> <<"3","1","/","0","2","/","1","9","8","5">>,
      death_date |-> <<"a","b","c">>],
     [deceased_full_name |-> <<"B","E","N","A","L","I">>,
      death_date |-> <<"1","7",".","0","7"," ","0","2","/","1","1","/","2","0","2","6">>],
     EmptyDict}

\* extracted_data the language model proposes for a life-insurance contract
LifeContractExtractions ==
    {[insured_full_name |-> <<"B","E","N","A","L","I"," ","M","O","H","A","M","E","D">>,
      insured_cne |-> <<"A","B","1","2","3","4","5","6">>,
      insured_birth_date |-> <<"1","5","/","0","3","/","1","9","8","5">>,
      beneficiary_full_name |-> <<"A","L","A","M","I"," ","F","A","T","I","M","A">>,
      beneficiary_cne |-> <<"C","D","7","8","9","0","1","2">>,
      beneficiary_birth_date |-> <<"2","2","/","0","7","/","1","9","9","0">>,
      contract_effective_date |-> <<"0","1","/","0","1","/","2","0","1","0">>,
      contract_duration |-> <<>>,
      contract_end_date |-> <<"0","1","/","0","1","/","2","0","2","0">>],
     [insured_full_name |-> <<"B","E","N","A","L","I"," ","M","O","H","A","M","E","D">>,
      insured_cne |-> <<"A","B","1","2","3","4","5","6">>,
      insured_birth_date |-> <<"1","5","/","0","3","/","1","9","8","5">>,
      beneficiary_full_name |-> <<"A","L","A","M","I"," ","F","A","T","I","M","A">>,
      beneficiary_cne |-> <<"C","D","7","8","9","0","1","2">>,
      beneficiary_birth_date |-> <<"2","2","/","0","7","/","1","9","9","0">>,
      contract_effective_date |-> <<"0","1","/","0","1","/","2","0","1","0">>,
      contract_duration |-> <<"1","5"," ","a","n","s">>,
      contract_end_date |-> <<>>],
     [insured_cne |-> <<>>,
      insured_birth_date |-> <<"1","5","/","0","3","/","1","9","8","5">>,
      beneficiary_cne |-> <<>>,
      beneficiary_birth_date |-> <<"2","2","/","0","7","/","1","9","9","0">>,
      contract_effective_date |-> <<"0","1","/","0","1","/","2","0","1","0">>,
      contract_duration |-> <<"3","0"," ","a","n","s"," ","2"," ","m","o","i","s">>,
      contract_end_date |-> <<>>],
     [insured_cne |-> <<"A","B","1","2","3","4","5","6">>,
      insured_birth_date |-> <<>>,
      beneficiary_cne |-> <<"C","D","7","8","9","0","1","2">>,
      beneficiary_birth_date |-> <<"3","2","/","0","7","/","1","9","9","0">>,
      contract_effective_date |-> <<"0","1","/","0","1","/","2","0","1","0">>,
      contract_duration |-> <<"l","o","n","g","t","e","m","p","s">>,
      contract_end_date |-> <<>>],
     [insured_cne |-> <<"A","B","1","2","3","4","5","6">>,
      insured_birth_date |-> <<"1","5","/","0","3","/","1","9","8","5">>,
      beneficiary_cne |-> <<"A","B","1","2","3","4","5","6">>,
      beneficiary_birth_date |-> <<"2","2","/","0","7","/","1","9","9","0">>,
      contract_effective_date |-> <<"0","1","/","0","1","/","2","0","1","0">>,
      contract_duration |-> <<"1","5"," ","a","n","s">>,
      contract_end_date |-> <<"0","2","/","1","1","/","2","0","2","6">>],
     [insured_cne |-> <<"A","B","1","2","3","4","5","6">>,
      beneficiary_cne |-> <<"C","D","7","8","9","0","1","2">>,
      contract_effective_date |-> <<"0","1","/","0","1","/","9","9","9","0">>,
      contract_duration |-> <<"1","5"," ","a","n","s">>],
     EmptyDict}

ExtractionsFor(doc) ==
    IF doc = DocId THEN IdExtractions
    ELSE IF doc = DocBank THEN BankExtractions
    ELSE IF doc = DocDeath THEN DeathExtractions
    ELSE IF doc = DocLifeContract THEN LifeContractExtractions
    ELSE {EmptyDict, [cni_full_name |-> <<"D","O","H","A">>]}

\* the scores the language model proposes; a proposal may also carry none
ProposedScores ==
    {IntScore(0), IntScore(0 - 5), IntScore(AcceptThreshold - 1), IntScore(AcceptThreshold),
     IntScore(150), StrScore(<<"a","b","c">>), StrScore(<<" ","9","0"," ">>)}

\* the fraud_signals lists the language model proposes; a proposal may also carry none
ProposedSignals ==
    {<<>>, <<"Signature mismatch">>,
     <<"Suspicious editor: canva", "Suspicious editor: canva">>}

\* what the language model claims about its own verdict
ProposedVerdicts ==
    {[decision |-> "REJECT", is_valid |-> TRUE, fraud_suspected |-> TRUE,
      reason |-> "Document falsifie"],
     [decision |-> "ACCEPT", is_valid |-> FALSE, fraud_suspected |-> FALSE,
      reason |-> "",
      format_validation |-> [k \in FlagNames |-> FALSE]]}

\* the JSON objects json.loads may return for a document of type doc
Proposals(doc) ==
    {Update(Update(verdict, optional), [extracted_data |-> ex]) :
        verdict \in ProposedVerdicts,
        optional \in {EmptyDict}
                     \cup {[score |-> x] : x \in ProposedScores}
                     \cup {[fraud_signals |-> x] : x \in ProposedSignals}
                     \cup {[score |-> x, fraud_signals |-> y] :
                              x \in ProposedScores, y \in ProposedSignals},
        ex \in ExtractionsFor(doc)}

----------------------------------------------------------------------------
(* Texts the model feeds to the extractor: concatenations of a few fragments *)

\* n copies of the character c
Repeat(c, n) == [i \in 1..n |-> c]

RECURSIVE Concat(_)
Concat(parts) == IF parts = <<>> THEN <<>> ELSE Head(parts) \o Concat(Tail(parts))

FragCodeA == <<"A","B","1","2","3","4","5","6">>

FragCodeB == <<"c","d"," ","-"," ","7","8","9","0","1","2">>

FragKeyword == <<" ","c","i","n",":"," ">>

\* a keyword whose first letter is exactly Window characters before what follows
FragKeywordEdge == FragKeyword \o Repeat(".", Window - 5)

\* a keyword whose first letter is Window + 1 characters before what follows
FragKeywordFar == FragKeyword \o Repeat(".", Window - 4)

FragJunk == <<"x","9">>

FragSpace == <<" ">>

Fragments ==
    {FragCodeA, FragCodeB, FragKeyword, FragKeywordEdge, FragKeywordFar,
     FragJunk, FragSpace}

\* longest text of the extractor's specification, in fragments
MaxFragments == 3

ExtractTexts == {Concat(fs) : fs \in UNION {[1..k -> Fragments] : k \in 0..MaxFragments}}

KeywordLists ==
    {<<>>,
     << <<"C","i","n">> >>,
     << <<"N","U","M">> >>,
     << <<"N","U","M">>, <<"C","I","N">> >>}

----------------------------------------------------------------------------
(* Values of the variables a specification does not use *)

NoCall == [fn |-> "none"]

NoValue == <<>>

----------------------------------------------------------------------------
(* Specification of a call of validate_with_groq *)

Init ==
    /\ pc = "start"
    /\ forced_doc_type \in DocTypeArgs
    /\ tech_report \in TechReports
    /\ raw_ocr_text \in OcrTexts
    /\ today \in Todays
    /\ llm = NoValue
    /\ result = NoValue
    /\ format_errors = <<>>
    /\ outcome = "pending"
    /\ call = NoCall
    /\ ret = NoValue

\* the language-model client raises groq.AuthenticationError: ValueError is raised
ValidateAuthenticationError ==
    /\ pc = "start"
    /\ llm' = [kind |-> "AuthenticationError"]
    /\ pc' = "raised"
    /\ outcome' = "raised"
    /\ UNCHANGED <<forced_doc_type, tech_report, raw_ocr_text, today, result,
                   format_errors, call, ret>>

\* the call of the language model or json.loads raises another exception
ValidateUpstreamFailure ==
    /\ pc = "start"
    /\ \E e \in {"APIConnectionError", "JSONDecodeError"} :
        /\ llm' = [kind |-> e]
        /\ result' = FallbackResult(NormalizeDocType(forced_doc_type), e)
    /\ pc' = "done"
    /\ outcome' = "fallback"
    /\ UNCHANGED <<forced_doc_type, tech_report, raw_ocr_text, today,
                   format_errors, call, ret>>

\* validate_with_groq once json.loads has returned: result["doc_type"] is forced and
\* _validate_extracted_data rules; what it raises is caught by `except Exception`
Answered(json, doc, out) ==
    /\ llm' = [kind |-> "json", json |-> json]
    /\ IF out.raised
       THEN /\ result' = FallbackResult(doc, out.error)
            /\ format_errors' = <<>>
            /\ outcome' = "fallback"
       ELSE /\ result' = out.result
            /\ format_errors' = out.errs
            /\ outcome' = "validated"

\* the language model answers a JSON object, which _validate_extracted_data rules on
ValidateAnswer ==
    /\ pc = "start"
    /\ \E json \in Proposals(NormalizeDocType(forced_doc_type)) :
        Answered(json, NormalizeDocType(forced_doc_type),
                 ValidateExtractedData(Put(json, "doc_type", NormalizeDocType(forced_doc_type)),
                                       tech_report, raw_ocr_text, today))
    /\ pc' = "done"
    /\ UNCHANGED <<forced_doc_type, tech_report, raw_ocr_text, today, call, ret>>

Next ==
    \/ ValidateAuthenticationError
    \/ ValidateUpstreamFailure
    \/ ValidateAnswer

Spec == Init /\ [][Next]_vars

----------------------------------------------------------------------------
(* Specification of _extract_cne_by_context as a called function *)

InitExtract ==
    /\ pc = "call"
    /\ call \in [fn : {"_extract_cne_by_context"}, text : ExtractTexts,
                 keywords : KeywordLists]
    /\ ret = NoValue
    /\ forced_doc_type = NoValue
    /\ tech_report = NoValue
    /\ raw_ocr_text = NoValue
    /\ today = NoValue
    /\ llm = NoValue
    /\ result = NoValue
    /\ format_errors = NoValue
    /\ outcome = NoValue

CallExtractCneByContext ==
    /\ pc = "call"
    /\ call.fn = "_extract_cne_by_context"
    /\ ret' = ExtractCneByContext(call.text, call.keywords)
    /\ pc' = "ret"
    /\ UNCHANGED <<forced_doc_type, tech_report, raw_ocr_text, today, llm, result,
                   format_errors, outcome, call>>

NextExtract == CallExtractCneByContext

SpecExtract == InitExtract /\ [][NextExtract]_vars

----------------------------------------------------------------------------
(* Specification of _normalize_cne, _is_cne_strict and _parse_date_any as *)
(* called functions                                                         *)

\* the arguments of _normalize_cne and _is_cne_strict: None, and codes written
\* with a prefix of letters, a separator, five to seven digits and a suffix
CneArgs ==
    {PyNone}
    \cup {pre \o sep \o SubSeq(<<"1","2","3","4","5","6","7">>, 1, n) \o suf :
             pre \in {<<>>, <<"A">>, <<"a","b">>, <<"C","d">>, <<"A","B","C">>, <<"1","A">>,
                      <<"a","-","b">>},
             sep \in {<<>>, <<" ">>, <<" ","-"," ">>, <<"/">>},
             n \in 5..7,
             suf \in {<<>>, <<" ">>, <<"x">>, <<"9">>}}

\* <<year, month, day>> written on three numeric fields, calendar dates or not
DateCases ==
    {<<2026, 1, 12>>, <<2026, 2, 31>>, <<2024, 2, 29>>, <<2025, 2, 29>>,
     <<2026, 4, 31>>, <<2026, 12, 31>>, <<1900, 2, 29>>, <<2000, 2, 29>>,
     <<2026, 13, 1>>, <<2026, 0, 10>>, <<2026, 1, 0>>, <<2026, 11, 2>>}

\* the three fields written year first, with the separator sep
YearFirst(c, sep) == Digits(c[1], 4) \o sep \o Digits(c[2], 2) \o sep \o Digits(c[3], 2)

\* the three fields written day first, with slashes
DayFirst(c) == Digits(c[3], 2) \o <<"/">> \o Digits(c[2], 2) \o <<"/">> \o Digits(c[1], 4)

\* strings in none of the formats
DateJunk ==
    {<<>>, <<"a","b","c">>, <<"1","2","/","2","0","2","6">>,
     <<"2","0","2","6","-","0","1">>, <<"1","2","/","0","1","/","2","6">>,
     <<"1","/","2","/","3","/","4">>}

DateArgs ==
    DateJunk \cup {DayFirst(c) : c \in DateCases}
             \cup {YearFirst(c, <<"/">>) : c \in DateCases}
             \cup {YearFirst(c, <<"-">>) : c \in DateCases}

InitHelpers ==
    /\ pc = "call"
    /\ call \in [fn : {"_normalize_cne", "_is_cne_strict"}, s : CneArgs]
               \cup [fn : {"_parse_date_any"}, s : DateArgs]
    /\ ret = NoValue
    /\ forced_doc_type = NoValue
    /\ tech_report = NoValue
    /\ raw_ocr_text = NoValue
    /\ today = NoValue
    /\ llm = NoValue
    /\ result = NoValue
    /\ format_errors = NoValue
    /\ outcome = NoValue

CallNormalizeCne ==
    /\ pc = "call"
    /\ call.fn = "_normalize_cne"
    /\ ret' = NormalizeCne(call.s)
    /\ pc' = "ret"
    /\ UNCHANGED <<forced_doc_type, tech_report, raw_ocr_text, today, llm, result,
                   format_errors, outcome, call>>

CallIsCneStrict ==
    /\ pc = "call"
    /\ call.fn = "_is_cne_strict"
    /\ ret' = IsCneStrict(call.s)
    /\ pc' = "ret"
    /\ UNCHANGED <<forced_doc_type, tech_report, raw_ocr_text, today, llm, result,
                   format_errors, outcome, call>>

CallParseDateAny ==
    /\ pc = "call"
    /\ call.fn = "_parse_date_any"
    /\ ret' = ParseDateAny(call.s)
    /\ pc' = "ret"
    /\ UNCHANGED <<forced_doc_type, tech_report, raw_ocr_text, today, llm, result,
                   format_errors, outcome, call>>

NextHelpers ==
    \/ CallNormalizeCne
    \/ CallIsCneStrict
    \/ CallParseDateAny

SpecHelpers == InitHelpers /\ [][NextHelpers]_vars

----------------------------------------------------------------------------
(* Properties of the result of validate_with_groq *)

\* the call has returned a dictionary (it has not raised)
Returns == pc = "done"

\* the language model answered a JSON object
Answers == pc = "done" /\ llm.kind = "json"

\* C1: whatever the inputs, and also when the language model or the parsing of
\* its answer fails, the decision of the returned result is ACCEPT or REVIEW,
\* never a third value and never the decision proposed upstream.
C1_DecisionAcceptOrReview == Returns => result.decision \in {"ACCEPT", "REVIEW"}

\* the language model proposed REJECT and the result says REVIEW
C1_Witness ==
    /\ Answers
    /\ outcome = "validated"
    /\ llm.json.decision = "REJECT"
    /\ result.decision = "REVIEW"

\* C2: whatever the inputs, a score proposed outside 0..100 included, the score
\* of the returned result lies between 0 and 100.
C2_ScoreWithinRange == Returns => (0 <= result.score /\ result.score <= 100)

\* C3: in every returned result, from the normal path or the fallback, is_valid
\* is true exactly when the decision is ACCEPT, whatever was proposed upstream.
C3_IsValidMirrorsDecision == Returns => (result.is_valid <=> result.decision = "ACCEPT")

\* the language model proposed is_valid true with a decision that is not ACCEPT,
\* and the result has is_valid false
C3_Witness ==
    /\ Answers
    /\ outcome = "validated"
    /\ llm.json.is_valid
    /\ result.decision = "REVIEW"
    /\ ~result.is_valid

\* C4: when the tech report says potential_tampering the decision is REVIEW, for
\* every document type, however high the score and with no format error.
C4_TamperingForcesReview ==
    (Returns /\ tech_report.potential_tampering) => result.decision = "REVIEW"

\* tampering reported, no format error, a final score above the threshold: REVIEW
C4_Witness ==
    /\ Answers
    /\ outcome = "validated"
    /\ tech_report.potential_tampering
    /\ format_errors = <<>>
    /\ result.score >= AcceptThreshold
    /\ result.decision = "REVIEW"

\* C5: the decision is ACCEPT exactly when potential_tampering is false, the
\* final score reaches the threshold, the reported fraud signals (those proposed
\* upstream united with those of the tech report) are empty and there is no
\* format error; a result with fraud signals is never ACCEPT.
C5_AcceptIffClean ==
    Returns =>
        (result.decision = "ACCEPT"
            <=> /\ ~tech_report.potential_tampering
                /\ result.score >= AcceptThreshold
                /\ result.fraud_signals = {}
                /\ format_errors = <<>>)

\* C6: the returned score is max(0, base_score - (6 * |format errors| + 10 *
\* |fraud signals|)), the fraud signals being the deduplicated set the result
\* reports.
C6_ScoreFormula ==
    (Answers /\ outcome = "validated") =>
        result.score =
            FinalScore(BaseScore(llm.json),
                       FormatPenalty * Len(format_errors)
                           + FraudPenalty * Cardinality(result.fraud_signals))

\* the score proposed upstream, as the language model wrote it
ProposedScore == Get(llm.json, "score", NullScore)

\* the score int() could not read made validate_with_groq fall back
FellBackOnScore ==
    outcome = "fallback" /\ result.reason = "Erreur API/systeme : invalid literal for int()"

\* C7: base_score is the proposed score when it is present and a number, 0
\* included, and 60 when it is absent or not a number; a score that is not a
\* number causes no exception and no fallback result.
C7_BaseScore ==
    Answers =>
        /\ ~FellBackOnScore
        /\ (outcome = "validated" /\ ProposedScore.t = "int") =>
               result.score = FinalScore(ProposedScore.v,
                                  Penalty(format_errors, TechFraudSignals(tech_report)))
        /\ (outcome = "validated" /\ (ProposedScore.t = "null" \/ IntRaises(ProposedScore))) =>
               result.score = FinalScore(DefaultScore,
                                  Penalty(format_errors, TechFraudSignals(tech_report)))

\* the document is of the type doc and the language model answered
AnswersFor(doc) == Answers /\ NormalizeDocType(forced_doc_type) = doc

\* C8: for a BANK document the RIB is the four components concatenated with
\* the non-digits removed, and when it does not have exactly 24 digits
\* rib_format_valid is false in the result.
C8_RibLengthFlag ==
    (AnswersFor(DocBank) /\ outcome = "validated") =>
        /\ Get(result.extracted_data, "bank_rib_code", <<>>)
               = AssembleRib(llm.json.extracted_data)
        /\ Len(AssembleRib(llm.json.extracted_data)) # 24
               => ~result.format_validation["rib_format_valid"]

\* the expiry date the language model extracted, spaces normalized
ProposedExpiry == NormSpaces(Get(llm.json.extracted_data, "cni_expiry_date", <<>>))

\* a format error naming the field label
ErrorNaming(label) == \E i \in 1..Len(format_errors) : format_errors[i].label = label

\* C9: for an ID document whose expiry date is not empty and is rejected by
\* validate_date_format, whatever the score proposed and the other fields,
\* dates_format_valid is false in the result, a format error names the expiry
\* date and the decision is REVIEW.
C9_RejectedExpiry ==
    (/\ AnswersFor(DocId)
     /\ ProposedExpiry # <<>>
     /\ ~ValidateDateFormat(PreCleanDate(ProposedExpiry)).ok) =>
        /\ result.decision = "REVIEW"
        /\ "dates_format_valid" \in DOMAIN result.format_validation
        /\ ~result.format_validation["dates_format_valid"]
        /\ ErrorNaming("Date expiration (CNI)")

----------------------------------------------------------------------------
(* What _extract_cne_by_context returns, stated on the text *)

\* index of the first digit of t after index i (Len(t) + 1 when there is none)
FirstDigitAfter(t, i) == Minimum({j \in (i + 1)..Len(t) : IsDigit(t[j])} \cup {Len(t) + 1})

\* between the two letters at p and the first digit at d: whitespace with at
\* most one hyphen in it
IsSeparator(sep) ==
    /\ \A j \in 1..Len(sep) : IsSpace(sep[j]) \/ sep[j] = "-"
    /\ Cardinality({j \in 1..Len(sep) : sep[j] = "-"}) <= 1

\* two letters on a word boundary at p, then a separator, then exactly six
\* digits from d on, ending on a word boundary
IsCodeFromTo(t, p, d) ==
    /\ p + 1 <= Len(t)
    /\ IsUpperLetter(t[p]) /\ IsUpperLetter(t[p + 1])
    /\ p = 1 \/ ~IsWordChar(t[p - 1])
    /\ IsSeparator(SubSeq(t, p + 2, d - 1))
    /\ d + 5 <= Len(t)
    /\ \A j \in d..(d + 5) : IsDigit(t[j])
    /\ d + 6 > Len(t) \/ ~IsWordChar(t[d + 6])

\* a strict code starts at index p of the uppercased text t
IsCodeStart(t, p) == IsCodeFromTo(t, p, FirstDigitAfter(t, p + 1))

\* the two letters at p and the six digits from d on
CodeFromTo(t, p, d) == <<t[p], t[p + 1]>> \o SubSeq(t, d, d + 5)

\* the strict code that starts at index p
CodeStartingAt(t, p) == CodeFromTo(t, p, FirstDigitAfter(t, p + 1))

CodeStarts(t) == {p \in 1..Len(t) : IsCodeStart(t, p)}

\* some keyword lies, whatever its case, wholly within the Window characters before p
KeywordBefore(t, p, keywords) ==
    \E k \in 1..Len(keywords) :
        \E i \in 1..(p - 1) :
            /\ i >= p - Window
            /\ i + Len(keywords[k]) <= p
            /\ SubSeq(t, i, i + Len(keywords[k]) - 1) = Upper(keywords[k])

\* the first code near a keyword, the first code when none is
ExpectedAmong(t, starts, near) == CodeStartingAt(t, Minimum(IF near # {} THEN near ELSE starts))

ExpectedFrom(t, starts, keywords) ==
    IF starts = {} THEN <<>>
    ELSE IF keywords = <<>> THEN CodeStartingAt(t, Minimum(starts))
    ELSE ExpectedAmong(t, starts, {p \in starts : KeywordBefore(t, p, keywords)})

ExpectedCode(text, keywords) == ExpectedFrom(Upper(text), CodeStarts(Upper(text)), keywords)

\* C10: _extract_cne_by_context returns empty when the text holds no strict code,
\* the first strict code when there are no keywords, otherwise the first strict
\* code with a keyword (in any case) in the 120 characters before it, and the
\* first strict code when no code has one.
C10_ExtractByContext ==
    (pc = "ret" /\ call.fn = "_extract_cne_by_context")
        => ret = ExpectedCode(call.text, call.keywords)

\* two strict codes, only the later one preceded by the keyword: the later is returned
C10_Witness ==
    /\ pc = "ret"
    /\ call.fn = "_extract_cne_by_context"
    /\ call.text = FragCodeA \o FragKeyword \o FragCodeB
    /\ call.keywords = << <<"C","i","n">> >>
    /\ ret = <<"C","D","7","8","9","0","1","2">>

----------------------------------------------------------------------------
(* The identity codes of a life contract *)

\* the uppercased text t names the role by the word role and a strict code
\* starts after that word
RoleHasCode(t, role) ==
    /\ Contains(t, role)
    /\ \E p \in CodeStarts(t) : p > Find(t, role) + Len(role)

\* the first strict code written after the word role
RoleCode(t, role) ==
    CodeStartingAt(t, Minimum({p \in CodeStarts(t) : p > Find(t, role) + Len(role)}))

InsuredWord == <<"A","S","S","U","R","E">>

BeneficiaryWord == <<"B","E","N","E","F","I","C","I","A","I","R","E">>

\* the text gives the insured a code and the beneficiary another one
NamesBothRoles(t) ==
    /\ RoleHasCode(t, InsuredWord)
    /\ RoleHasCode(t, BeneficiaryWord)
    /\ RoleCode(t, InsuredWord) # RoleCode(t, BeneficiaryWord)

\* the proposal carries neither insured_cne nor beneficiary_cne
ProposesNoCne ==
    /\ Get(llm.json.extracted_data, "insured_cne", <<>>) = <<>>
    /\ Get(llm.json.extracted_data, "beneficiary_cne", <<>>) = <<>>

\* C11: for a LIFE_CONTRACT whose proposal carries neither insured_cne nor
\* beneficiary_cne and whose text writes the insured's code after an insured
\* keyword and the beneficiary's code after a beneficiary keyword, each labelled
\* CIN, the result's insured_cne is the insured's code and its beneficiary_cne is
\* the beneficiary's code: never swapped, never the same code twice.
C11_RoleCodesNotShared ==
    (AnswersFor(DocLifeContract) /\ outcome = "validated" /\ ProposesNoCne
        /\ NamesBothRoles(Upper(raw_ocr_text)))
    => /\ Get(result.extracted_data, "insured_cne", <<>>)
              = RoleCode(Upper(raw_ocr_text), InsuredWord)
       /\ Get(result.extracted_data, "beneficiary_cne", <<>>)
              = RoleCode(Upper(raw_ocr_text), BeneficiaryWord)

----------------------------------------------------------------------------
(* Failures of the language model *)

\* the call of the language model, or the parsing of its answer, failed
UpstreamFailed == pc # "start" /\ llm.kind # "json"

\* a result was returned and it is the REVIEW result of a system failure
ReturnedSystemFailure ==
    /\ pc = "done"
    /\ result.decision = "REVIEW"
    /\ result.score = 0
    /\ result.is_valid = FALSE
    /\ result.reason = "Erreur API/systeme : " \o llm.kind

\* the statement without the exception of the authentication error: every
\* failure of the call or of the parsing is returned as a REVIEW result
C15_NeverPropagated == UpstreamFailed => ReturnedSystemFailure

\* C15: when the call of the language model or the parsing of its answer fails
\* with anything but an authentication error, validate_with_groq returns a
\* result with decision REVIEW, score 0, is_valid false and a reason naming the
\* failure; an authentication error is raised to the caller as ValueError.
C15_FailureBecomesReview ==
    /\ (UpstreamFailed /\ llm.kind # "AuthenticationError") => ReturnedSystemFailure
    /\ (UpstreamFailed /\ llm.kind = "AuthenticationError")
           => (pc = "raised" /\ outcome = "raised" /\ result = NoValue)

\* the answer was not JSON and the REVIEW result came back
C15_Witness ==
    /\ pc = "done"
    /\ llm.kind = "JSONDecodeError"
    /\ outcome = "fallback"
    /\ result.decision = "REVIEW"
    /\ result.score = 0

----------------------------------------------------------------------------
(* Missing fields *)

\* the required fields of a document type, by the flag they answer to
RequiredCodes(doc) ==
    IF doc = DocId THEN {"cni_cne"}
    ELSE IF doc = DocDeath THEN {"deceased_cne"}
    ELSE IF doc = DocLifeContract THEN {"insured_cne", "beneficiary_cne"}
    ELSE {}

RequiredDates(doc) ==
    IF doc = DocId THEN {"cni_birth_date", "cni_expiry_date"}
    ELSE IF doc = DocDeath THEN {"deceased_birth_date", "death_date"}
    ELSE IF doc = DocLifeContract
         THEN {"insured_birth_date", "beneficiary_birth_date", "contract_effective_date"}
    ELSE {}

RequiredRibParts(doc) ==
    IF doc = DocBank
    THEN {"bank_code_banque", "bank_code_ville", "bank_numero_compte", "bank_cle_rib"}
    ELSE {}

RequiredOthers(doc) == IF doc = DocBank THEN {"bank_account_holder", "bank_iban"} ELSE {}

\* the fields of keys that are empty in the extracted data returned, that is
\* empty in the proposal and not recovered from the text either
MissingAmong(keys) == {k \in keys : Get(result.extracted_data, k, <<>>) = <<>>}

MissingRequired(doc) ==
    MissingAmong(RequiredCodes(doc) \cup RequiredDates(doc)
                     \cup RequiredRibParts(doc) \cup RequiredOthers(doc))

\* every missing required field has its entry and its flag
MissingFieldsReported(doc) ==
    /\ Len(format_errors) >= Cardinality(MissingRequired(doc))
    /\ MissingAmong(RequiredCodes(doc)) # {} => ~result.format_validation["cne_format_valid"]
    /\ MissingAmong(RequiredDates(doc)) # {} => ~result.format_validation["dates_format_valid"]
    /\ MissingAmong(RequiredRibParts(doc)) # {} => ~result.format_validation["rib_format_valid"]
    /\ "bank_iban" \in MissingRequired(doc) => ~result.format_validation["iban_format_valid"]

\* C16: for an ID, BANK, DEATH or LIFE_CONTRACT document the checks of the
\* fields raise nothing, and every required field that is missing appends an
\* entry to the format errors and sets its flag to false, so that k missing
\* fields give at least k entries.
C16_MissingFieldsReported ==
    \A doc \in {DocId, DocBank, DocDeath, DocLifeContract} :
        AnswersFor(doc) =>
            /\ outcome = "validated" \/ FellBackOnScore
            /\ outcome = "validated" => MissingFieldsReported(doc)

----------------------------------------------------------------------------
(* The end of a life contract *)

\* the explicit end date the checks read, when it was accepted
ExplicitEnd ==
    IF ErrorNaming("Date fin contrat") THEN NoDate
    ELSE ParseDateAny(Get(result.extracted_data, "contract_end_date", <<>>))

\* a contract without end date whose effective date + duration is the day of
\* ordinal computed_end records a temporal entry
ComputedEndRecords(computed_end, now) ==
    LifeComputedEndRule([ex |-> EmptyDict, fv |-> EmptyDict, errs |-> <<>>],
                        computed_end, now).st.errs # <<>>

\* C17: for a LIFE_CONTRACT whose explicit end date is D, a temporal entry is
\* recorded if and only if a contract without end date whose effective date +
\* duration equals D records one: one relation to today for both.
C17_SameRelationToToday ==
    (AnswersFor(DocLifeContract) /\ outcome = "validated" /\ ExplicitEnd # NoDate)
        => (ErrorNaming("Contrat") <=> ComputedEndRecords(Ordinal(ExplicitEnd), today))

----------------------------------------------------------------------------
(* Fraud signals and format flags of a validated result *)

\* _validate_extracted_data returned the result
Validated == Answers /\ outcome = "validated"

\* the signals the language model proposed, as a set
UpstreamSignals ==
    {Get(llm.json, "fraud_signals", <<>>)[i] :
        i \in 1..Len(Get(llm.json, "fraud_signals", <<>>))}

\* the signals the tech report gives rise to
DerivedSignals ==
    (IF tech_report.potential_tampering
     THEN {"Suspicious editor: " \o tech_report.editor_detected} ELSE {})
    \cup (IF tech_report.font_count > FontThreshold
          THEN {"High font variety: " \o ToString(tech_report.font_count) \o " fonts"}
          ELSE {})

UpstreamFlags == Get(llm.json, "format_validation", EmptyDict)

\* C19: each of the four format_validation flags is in the result, is true when
\* it was absent upstream and no check failed, and is false when it was false
\* upstream: no step sets a false flag back to true.
C19_FlagsOnlyFall ==
    Validated =>
        \A k \in FlagNames :
            /\ k \in DOMAIN result.format_validation
            /\ (k \notin DOMAIN UpstreamFlags /\ format_errors = <<>>)
                   => result.format_validation[k]
            /\ (k \in DOMAIN UpstreamFlags /\ ~UpstreamFlags[k])
                   => ~result.format_validation[k]

----------------------------------------------------------------------------
(* The cleaning of the IBAN *)

\* the IBAN proposed, uppercased and without spaces
ProposedIban == IbanOf(llm.json.extracted_data)

\* the length of what is kept of iban: 28 characters at most from the first MA
\* on, the last 28 when there is no MA and iban is longer, all of it otherwise
KeptLength(iban) ==
    IF Contains(iban, <<"M","A">>)
    THEN IF Len(iban) - Find(iban, <<"M","A">>) > 28 THEN 28
         ELSE Len(iban) - Find(iban, <<"M","A">>)
    ELSE IF Len(iban) > 28 THEN 28 ELSE Len(iban)

\* an entry tells that the IBAN iban was cleaned
CleaningLogged(iban) ==
    \E i \in 1..Len(format_errors) :
        /\ format_errors[i].label = "IBAN"
        /\ format_errors[i].problem = "nettoye"
        /\ format_errors[i].value = iban

\* C20: for a BANK document whose IBAN changes length when cleaned, an entry
\* tells so even when the cleaned IBAN is valid, the score is at least 6 points
\* below the base score (or 0) and the decision is REVIEW; an IBAN whose length
\* is unchanged and that validates adds no entry.
C20_CleanedIbanLogged ==
    (AnswersFor(DocBank) /\ outcome = "validated" /\ ProposedIban # <<>>) =>
        /\ KeptLength(ProposedIban) # Len(ProposedIban) =>
               /\ CleaningLogged(ProposedIban)
               /\ result.score <= FinalScore(BaseScore(llm.json), FormatPenalty)
               /\ result.decision = "REVIEW"
        /\ (KeptLength(ProposedIban) = Len(ProposedIban)
                /\ result.format_validation["iban_format_valid"])
               => ~ErrorNaming("IBAN")

\* a prefix was cut off, what is left is a valid IBAN, and the cleaning is logged
C20_Witness ==
    /\ AnswersFor(DocBank)
    /\ outcome = "validated"
    /\ Len(ProposedIban) > 28
    /\ KeptLength(ProposedIban) = 28
    /\ result.format_validation["iban_format_valid"]
    /\ CleaningLogged(ProposedIban)
    /\ result.decision = "REVIEW"

----------------------------------------------------------------------------
(* Properties of _is_cne_strict, _normalize_cne and _parse_date_any *)

\* exactly two letters followed by exactly six digits
TwoLettersSixDigits(n) ==
    /\ Len(n) = 8
    /\ \A i \in 1..2 : IsUpperLetter(n[i])
    /\ \A i \in 3..8 : IsDigit(n[i])

\* C12: _is_cne_strict(x) is true exactly when _normalize_cne(x) is two letters
\* followed by six digits; one letter and six digits, or any other length, is
\* not strict.
C12_StrictIffTwoLetters ==
    (pc = "ret" /\ call.fn = "_is_cne_strict")
        => (ret <=> TwoLettersSixDigits(NormalizeCne(call.s)))

\* C13: _normalize_cne is idempotent, None and the empty string included, and
\* what it returns holds only characters of A-Z and 0-9.
C13_NormalizeIdempotent ==
    (pc = "ret" /\ call.fn = "_normalize_cne")
        => /\ NormalizeCne(ret) = ret
           /\ \A i \in 1..Len(ret) : IsUpperLetter(ret[i]) \/ IsDigit(ret[i])

\* lower-case letters, a hyphen and spaces were removed or uppercased
C13_Witness ==
    /\ pc = "ret"
    /\ call.fn = "_normalize_cne"
    /\ call.s = <<"a","-","b"," ","-"," ","1","2","3","4","5","6","x">>
    /\ ret = <<"A","B","1","2","3","4","5","6","X">>

\* None is normalized to the empty string
C13_WitnessNone == pc = "ret" /\ call.fn = "_normalize_cne" /\ call.s = PyNone /\ ret = <<>>

\* the fields of case c name a date of the calendar (leap years every 4 years,
\* not every 100, but every 400)
NamesCalendarDate(c) ==
    /\ c[2] \in 1..12
    /\ c[3] >= 1
    /\ c[3] <= (CASE c[2] \in {4, 6, 9, 11} -> 30
                  [] c[2] = 2 ->
                      (IF (c[1] % 4 = 0 /\ c[1] % 100 # 0) \/ c[1] % 400 = 0 THEN 29 ELSE 28)
                  [] OTHER -> 31)

\* the string s is case c written day first, year first or as an ISO date
WritesCase(s, c) ==
    s \in {DayFirst(c), YearFirst(c, <<"/">>), YearFirst(c, <<"-">>)}

\* C14: _parse_date_any returns the same date for the day/month/year, the
\* year/month/day and the ISO form of one date, and None for a string that is in
\* no format or names no date of the calendar.
C14_ParseDateForms ==
    (pc = "ret" /\ call.fn = "_parse_date_any")
        => /\ \A c \in DateCases :
                  WritesCase(call.s, c) => ret = (IF NamesCalendarDate(c) THEN c ELSE NoDate)
           /\ call.s \in DateJunk => ret = NoDate

\* the ISO form of 12 January 2026 is read as that date
C14_Witness ==
    /\ pc = "ret"
    /\ call.fn = "_parse_date_any"
    /\ call.s = <<"2","0","2","6","-","0","1","-","1","2">>
    /\ ret = <<2026, 1, 12>>

====
